---- MODULE Spec2Model ----
(***************************************************************************)
(* A model of the ranking data pipeline (tide/data.py, tide/datamodule.py)  *)
(* and of the multi-vector model wrapper (lightning_ir/models/mvr/model.py).*)
(*                                                                         *)
(* Identifiers (query ids, doc ids) are small naturals whose order stands  *)
(* for the lexicographic order of the string ids the program sorts by.     *)
(* Floating point values (scores, grades, ranks) are small integers.       *)
(***************************************************************************)
EXTENDS Integers, Sequences, FiniteSets, TLC

VARIABLES
    kind,       \* which training dataset the data module holds: "run" | "triples"
    run_file,   \* rows of the run file, in file order (columns 0, 2, 3)
    qrels,      \* the dataset's relevance judgments (qrels_iter)
    config,     \* the RunDatasetConfig
    dataset,    \* the RunDataset after __init__ (None before)
    docpairs,   \* the supervision stream behind docpairs_iter, and its format
    cursor,     \* next index the loader fetches / position of the iterator
    item,       \* outcome of the last item access: a Sample, or a raised error
    pending,    \* samples the loader has fetched for the batch being assembled
    batch,      \* the last collate_fn call: its samples and the Batch returned
    model_config, \* the MVRConfig of the model (num_viewer_tokens)
    call,       \* the last call on the model, the aggregation routine or the data module
    datamodule, \* the arguments MVRDataModule was constructed with
    attrs       \* the instance attributes of the MVRDataModule that exist

dataVars == <<kind, run_file, qrels, config, dataset, docpairs, cursor, item, pending, batch>>
modelVars == <<model_config, call>>
setupVars == <<datamodule, attrs>>
vars == <<dataVars, modelVars, setupVars>>

-----------------------------------------------------------------------------
(* Bounds of the model *)

MaxRunLen == 2        \* documents the run file ranks for query 1
MaxGrade == 2         \* largest relevance grade in the judgments
MaxSampleSize == 3    \* largest configured sample_size
MaxStream == 2        \* records in the supervision stream

Queries == {1, 2}
Docs == {1, 2, 3}
Depths == {-1, 1}
ScoreValues == {2, 8}   \* tenths: 0.2 and 0.8

-----------------------------------------------------------------------------
(* Python / pandas values *)

\* pandas' missing value in a numeric column (ranks and grades are >= 0)
NaN == -1

\* Python's None, and a present optional value
NoneVal == [is_none |-> TRUE]
Some(v) == [is_none |-> FALSE, value |-> v]

\* an exception propagating to the caller, and a normal return
Raise(e) == [raised |-> TRUE, error |-> e]
Return(v) == [raised |-> FALSE, value |-> v]

Min(a, b) == IF a < b THEN a ELSE b
Max(a, b) == IF a > b THEN a ELSE b

RECURSIVE Flatten(_)
Flatten(ss) == IF ss = <<>> THEN <<>> ELSE Head(ss) \o Flatten(Tail(ss))

RECURSIVE SumSeq(_)
SumSeq(s) == IF s = <<>> THEN 0 ELSE Head(s) + SumSeq(Tail(s))

RECURSIVE MaxSeq(_)
MaxSeq(s) == IF s = <<>> THEN 0 ELSE Max(Head(s), MaxSeq(Tail(s)))

\* Series.fillna(0)
fillna0(x) == IF x = NaN THEN 0 ELSE x

\* DataFrame.head(n), n >= 0
head(rows, n) == SubSeq(rows, 1, Min(n, Len(rows)))

\* the document store and the query table: docs.get(doc_id).default_text()
\* and queries[query_id]; both hold every id of the dataset
default_text(doc_id) == <<"doc", doc_id>>
query_text(query_id) == <<"query", query_id>>

\* the Sample named tuple
Sample(query_id, query, doc_ids, docs, targets, relevance) ==
    [query_id |-> query_id, query |-> query, doc_ids |-> doc_ids,
     docs |-> docs, targets |-> targets, relevance |-> relevance]

-----------------------------------------------------------------------------
(* RunDataset.__init__ *)

\* a run that keeps every row whatever the depth
DepthFilterOff(run, depth) == run

\* self.run = self.run[self.run["rank"] <= config.depth], unless depth is -1
DepthFilter(run, depth) ==
    IF depth # -1 THEN SelectSeq(run, LAMBDA r : r.rank <= depth) ELSE run

\* self.qrels.loc[IndexSlice[run["query_id"].drop_duplicates(), :]]
QrelsOfRunQueries(qr, run) ==
    {j \in qr : \E i \in 1..Len(run) : run[i].query_id = j.query_id}

\* the rows an outer merge on (query_id, doc_id) produces for one key
MergeKey(run, qr, q, d) ==
    LET left == SelectSeq(run, LAMBDA r : r.query_id = q /\ r.doc_id = d)
        right == {j \in qr : j.query_id = q /\ j.doc_id = d}
        rel == IF right = {} THEN NaN ELSE (CHOOSE j \in right : TRUE).relevance
    IN  IF left = <<>>
        THEN IF right = {} THEN <<>>
             ELSE <<[query_id |-> q, doc_id |-> d, rank |-> NaN, relevance |-> rel]>>
        ELSE [i \in 1..Len(left) |->
                [query_id |-> q, doc_id |-> d, rank |-> left[i].rank, relevance |-> rel]]

\* run.merge(qrels, on=["query_id", "doc_id"], how="outer"): the union of the
\* keys of both frames, keys in lexicographic order
RECURSIVE MergeFrom(_, _, _)
MergeFrom(k, run, qr) ==
    LET nd == Cardinality(Docs)
    IN  IF k >= Cardinality(Queries) * nd THEN <<>>
        ELSE MergeKey(run, qr, (k \div nd) + 1, (k % nd) + 1) \o MergeFrom(k + 1, run, qr)

MergeOuter(run, qr) == MergeFrom(0, run, qr)

\* the order of sort_values(["query_id", "rank"]): missing ranks last
RowBefore(a, b) ==
    \/ a.query_id < b.query_id
    \/ /\ a.query_id = b.query_id
       /\ a.rank # NaN
       /\ (b.rank = NaN \/ a.rank < b.rank)

RECURSIVE InsertRow(_, _)
InsertRow(sorted, r) ==
    IF sorted = <<>> THEN <<r>>
    ELSE IF RowBefore(r, Head(sorted)) THEN <<r>> \o sorted
    ELSE <<Head(sorted)>> \o InsertRow(Tail(sorted), r)

RECURSIVE SortValues(_)
SortValues(rows) ==
    IF rows = <<>> THEN <<>>
    ELSE InsertRow(SortValues(SubSeq(rows, 1, Len(rows) - 1)), rows[Len(rows)])

\* list(self.groups.groups.keys()): the query ids of the merged table, sorted
RECURSIVE GroupKeys(_, _)
GroupKeys(rows, q) ==
    IF q > Cardinality(Queries) THEN <<>>
    ELSE (IF \E i \in 1..Len(rows) : rows[i].query_id = q THEN <<q>> ELSE <<>>)
         \o GroupKeys(rows, q + 1)

RunDataset_init(file, qr, cfg) ==
    LET run == DepthFilter(file, cfg.depth)
        merged == MergeOuter(run, QrelsOfRunQueries(qr, run))
        sorted == SortValues(merged)
    IN  [run |-> sorted, query_ids |-> GroupKeys(sorted, 1)]

\* self.groups.get_group(query_id)
get_group(ds, query_id) == SelectSeq(ds.run, LAMBDA r : r.query_id = query_id)

\* RunDataset.__len__
RunDataset_len(ds) == Len(ds.query_ids)

-----------------------------------------------------------------------------
(* RunDataset.__getitem__ *)

\* a draw that may take the same row more than once
SampleRowsWithReplacement(rows, n) ==
    {[j \in 1..n |-> rows[f[j]]] : f \in [1..n -> 1..Len(rows)]}

\* DataFrame.sample(n) on the rows of `rows`: every choice of n distinct rows,
\* in every order; the empty set when n rows cannot be drawn
SampleRows(rows, n) ==
    {[j \in 1..n |-> rows[f[j]]] :
        f \in {g \in [1..n -> 1..Len(rows)] : \A a, b \in 1..n : a # b => g[a] # g[b]}}

\* group.loc[group["relevance"] > 0]
RelevantRows(group) == SelectSeq(group, LAMBDA r : r.relevance > 0)

\* group["relevance"].fillna(0).eq(0) & ~group["rank"].isna()
NonRelevantBool(r) == fillna0(r.relevance) = 0 /\ r.rank # NaN

NonRelevantRows(group) == SelectSeq(group, NonRelevantBool)

\* the value of column `field` of a row
Column(r, field) == IF field = "rank" THEN r.rank ELSE r.relevance

\* group.set_index("doc_id").loc[list(doc_ids), field].fillna(0): for every
\* requested label, the values of all rows of the group carrying that label
TargetsOf(group, doc_ids, field) ==
    Flatten([k \in 1..Len(doc_ids) |->
        LET hit == SelectSeq(group, LAMBDA r : r.doc_id = doc_ids[k])
        IN  [i \in 1..Len(hit) |-> fillna0(Column(hit[i], field))]])

\* lines 99-104: the Sample built from the sampled group
BuildSample(query_id, group, relevance, cfg) ==
    LET doc_ids == [i \in 1..Len(group) |-> group[i].doc_id]
        docs == [i \in 1..Len(doc_ids) |-> default_text(doc_ids[i])]
        targets == TargetsOf(group, doc_ids, cfg.targets)
    IN  Sample(query_id, query_text(query_id), doc_ids, docs, targets, relevance)

\* a branch that hands back the non-relevant draw alone when nothing is relevant
SingleRelevantMasked(query_id, group, cfg) ==
    LET relevant == RelevantRows(group)
        non_relevant == NonRelevantRows(group)
        sample_non_relevant == Min(cfg.sample_size - 1, Len(non_relevant))
    IN  IF sample_non_relevant < 0
        THEN {Raise("ValueError")}
        ELSE IF relevant = <<>>
        THEN {Return(BuildSample(query_id, drawn, NoneVal, cfg)) :
                drawn \in SampleRows(non_relevant, sample_non_relevant)}
        ELSE {Return(BuildSample(query_id, <<relevant[i]>> \o drawn, NoneVal, cfg)) :
                i \in 1..Len(relevant),
                drawn \in SampleRows(non_relevant, sample_non_relevant)}

\* the "single_relevant" branch: the outcomes of the two random draws
SingleRelevant(query_id, group, cfg) ==
    LET relevant == RelevantRows(group)
        non_relevant == NonRelevantRows(group)
        sample_non_relevant == Min(cfg.sample_size - 1, Len(non_relevant))
    IN  IF relevant = <<>> \/ sample_non_relevant < 0
        THEN {Raise("ValueError")}
        ELSE {Return(BuildSample(query_id, <<relevant[i]>> \o drawn, NoneVal, cfg)) :
                i \in 1..Len(relevant),
                drawn \in SampleRows(non_relevant, sample_non_relevant)}

\* the "top" branch
Top(query_id, group, cfg) ==
    LET relevance == [i \in 1..Len(group) |-> fillna0(group[i].relevance)]
    IN  {Return(BuildSample(query_id, head(group, cfg.sample_size), Some(relevance), cfg))}

\* the set of outcomes of dataset[idx] (idx counts from 0)
RunDataset_getitem(ds, cfg, idx) ==
    LET query_id == ds.query_ids[idx + 1]
        group == get_group(ds, query_id)
    IN  IF cfg.sampling_strategy = "single_relevant"
        THEN SingleRelevant(query_id, group, cfg)
        ELSE Top(query_id, group, cfg)

-----------------------------------------------------------------------------
(* KDDocPairs.docpairs_iter and TriplesDataset.__iter__ *)

\* the ScoredDocPair named tuple
ScoredDocPair(query_id, doc_id_a, doc_id_b, score_a, score_b) ==
    [query_id |-> query_id, doc_id_a |-> doc_id_a, doc_id_b |-> doc_id_b,
     score_a |-> score_a, score_b |-> score_b]

\* one line of the supervision file: pos_score neg_score qid pid1 pid2
KDDocPairs_parse(cols) == ScoredDocPair(cols[3], cols[4], cols[5], cols[1], cols[2])

\* the k-th record of self.dataset.docpairs_iter()
DocPairRecord(dp, k) ==
    IF dp.format = "kd" THEN KDDocPairs_parse(dp.records[k]) ELSE dp.records[k]

\* hasattr(doc, name)
hasattr(doc, name) == name \in DOMAIN doc

\* a record's Sample with the default scores the wrong way round
TriplesDataset_sampleSwapped(doc) ==
    LET score_a == IF hasattr(doc, "score_a") THEN doc.score_a ELSE 0
        score_b == IF hasattr(doc, "score_b") THEN doc.score_b ELSE 1
    IN  Sample(doc.query_id, query_text(doc.query_id),
               <<doc.doc_id_a, doc.doc_id_b>>,
               <<default_text(doc.doc_id_a), default_text(doc.doc_id_b)>>,
               <<score_a, score_b>>, NoneVal)

\* the Sample yielded for one record
TriplesDataset_sample(doc) ==
    LET score_a == IF hasattr(doc, "score_a") THEN doc.score_a ELSE 1
        score_b == IF hasattr(doc, "score_b") THEN doc.score_b ELSE 0
    IN  Sample(doc.query_id, query_text(doc.query_id),
               <<doc.doc_id_a, doc.doc_id_b>>,
               <<default_text(doc.doc_id_a), default_text(doc.doc_id_b)>>,
               <<score_a, score_b>>, NoneVal)

-----------------------------------------------------------------------------
(* MVRDataModule.collate_fn *)

\* torch.tensor of a flat list, and of a list of equally long rows
Tensor1D(xs) == [shape |-> <<Len(xs)>>, data |-> xs]
Tensor2D(rows, width) == [shape |-> <<Len(rows), width>>, data |-> rows]

\* tokenizer.encode_queries / encode_docs: one encoded row per text
encode(texts) == [rows |-> [i \in 1..Len(texts) |-> <<"enc", texts[i]>>]]

\* torch.nn.utils.rnn.pad_sequence(tensors, batch_first=True)
pad_sequence(tensors) ==
    LET width == MaxSeq([i \in 1..Len(tensors) |-> Len(tensors[i])])
    IN  Tensor2D([i \in 1..Len(tensors) |->
                    [j \in 1..width |-> IF j <= Len(tensors[i]) THEN tensors[i][j] ELSE 0]],
                 width)

\* targets.extend(sample.targets) over the samples
CollateTargets(samples) == Flatten([i \in 1..Len(samples) |-> samples[i].targets])

\* docs.append(sample.docs): one entry per sample instead of one per document
CollateDocsAppend(samples) == [i \in 1..Len(samples) |-> samples[i].docs]

\* docs.extend(sample.docs) over the samples
CollateDocs(samples) == Flatten([i \in 1..Len(samples) |-> samples[i].docs])

\* doc_ids.append(sample.doc_ids) over the samples
CollateDocIds(samples) == [i \in 1..Len(samples) |-> samples[i].doc_ids]

\* the tensors appended for the samples whose relevance is not None
RECURSIVE CollateRelevances(_)
CollateRelevances(samples) ==
    IF samples = <<>> THEN <<>>
    ELSE (IF Head(samples).relevance.is_none THEN <<>>
          ELSE <<Head(samples).relevance.value>>)
         \o CollateRelevances(Tail(samples))

collate_fn(samples) ==
    LET relevances == CollateRelevances(samples)
    IN  [query_ids |-> [i \in 1..Len(samples) |-> samples[i].query_id],
         query_encoding |-> encode([i \in 1..Len(samples) |-> samples[i].query]),
         doc_ids |-> CollateDocIds(samples),
         doc_encoding |-> encode(CollateDocs(samples)),
         targets |-> Tensor1D(CollateTargets(samples)),
         relevance |-> IF relevances # <<>> THEN Some(pad_sequence(relevances))
                       ELSE NoneVal]

-----------------------------------------------------------------------------
(* Inputs *)

\* sequences over S of length at most n
SeqUpTo(S, n) == UNION {[1..k -> S] : k \in 0..n}

\* a run file: query 2 ranks document 1 at rank 2; query 1 ranks the
\* documents of `ranking` at ranks 1, 2, ... (a file may list a document
\* more than once for a query)
RunFileOf(ranking) ==
    <<[query_id |-> 2, doc_id |-> 1, rank |-> 2]>>
    \o [i \in 1..Len(ranking) |-> [query_id |-> 1, doc_id |-> ranking[i], rank |-> i]]

\* judgments: query 1 as given by `grades` (NaN: not judged), query 2 judges
\* document 2 relevant
QrelsOf(grades) ==
    {[query_id |-> 1, doc_id |-> d, relevance |-> grades[d]] : d \in {e \in Docs : grades[e] # NaN}}
    \cup {[query_id |-> 2, doc_id |-> 2, relevance |-> 1]}

RunDatasetConfigs ==
    [targets : {"relevance", "rank"}, depth : Depths,
     sample_size : 0..MaxSampleSize, sampling_strategy : {"single_relevant", "top"}]

NoConfig == [targets |-> "relevance", depth |-> -1, sample_size |-> 0, sampling_strategy |-> "top"]

\* records of a docpairs stream without scores, and lines of the scored file
PlainRecords == [query_id : Queries, doc_id_a : {1, 2}, doc_id_b : {2, 3}]
KDLines == {<<sa, sb, q, a, b>> : sa \in ScoreValues, sb \in ScoreValues, q \in Queries,
                                   a \in {1}, b \in {2, 3}}

\* MVRDataModule.__init__ with no datasets configured: the data module as it
\* stands while only a dataset, the model or the aggregation is exercised
NoDataModule ==
    [train_dataset |-> NoneVal, inference_datasets |-> NoneVal,
     train_run_config |-> NoneVal, inference_run_config |-> NoneVal]

\* the attributes __init__ assigns that the loaders read
InitAttrs == [batch_size |-> 1, num_workers |-> 0]

SetupIdle ==
    /\ datamodule = NoDataModule
    /\ attrs = InitAttrs

InitRun ==
    /\ kind = "run"
    /\ \E ranking \in SeqUpTo(Docs, MaxRunLen) : run_file = RunFileOf(ranking)
    /\ \E grades \in [Docs -> {NaN} \cup (0..MaxGrade)] : qrels = QrelsOf(grades)
    /\ config \in RunDatasetConfigs
    /\ docpairs = [format |-> "plain", records |-> <<>>]

InitTriples ==
    /\ kind = "triples"
    /\ run_file = <<>>
    /\ qrels = {}
    /\ config = NoConfig
    /\ \/ \E rs \in SeqUpTo(PlainRecords, MaxStream) : docpairs = [format |-> "plain", records |-> rs]
       \/ \E ls \in SeqUpTo(KDLines, MaxStream) : docpairs = [format |-> "kd", records |-> ls]

Init ==
    /\ InitRun \/ InitTriples
    /\ dataset = NoneVal
    /\ cursor = 0
    /\ item = NoneVal
    /\ pending = <<>>
    /\ batch = NoneVal
    /\ model_config = [num_viewer_tokens |-> NoneVal]
    /\ call = NoneVal
    /\ SetupIdle

-----------------------------------------------------------------------------
(* Operations *)

Failed == ~item.is_none /\ item.value.raised

\* MVRDataModule.setup("fit") building RunDataset(path, train_run_config)
Construct ==
    /\ kind = "run"
    /\ dataset.is_none
    /\ dataset' = Some(RunDataset_init(run_file, qrels, config))
    /\ UNCHANGED <<kind, run_file, qrels, config, docpairs, cursor, item, pending, batch, modelVars, setupVars>>

\* the loader fetching dataset[cursor]; an error ends the loader
FetchItem ==
    /\ kind = "run"
    /\ ~dataset.is_none
    /\ ~Failed
    /\ cursor < RunDataset_len(dataset.value)
    /\ \E out \in RunDataset_getitem(dataset.value, config, cursor) :
        /\ item' = Some([idx |-> cursor, raised |-> out.raised,
                         error |-> IF out.raised THEN out.error ELSE "",
                         value |-> IF out.raised THEN NoneVal ELSE Some(out.value)])
        /\ pending' = IF out.raised THEN pending ELSE Append(pending, out.value)
        /\ cursor' = IF out.raised THEN cursor ELSE cursor + 1
    /\ UNCHANGED <<kind, run_file, qrels, config, dataset, docpairs, batch, modelVars, setupVars>>

\* the loader taking the next Sample of iter(TriplesDataset)
NextTriple ==
    /\ kind = "triples"
    /\ cursor < Len(docpairs.records)
    /\ LET sample == TriplesDataset_sample(DocPairRecord(docpairs, cursor + 1))
       IN  /\ item' = Some([idx |-> cursor, raised |-> FALSE, error |-> "",
                            value |-> Some(sample)])
           /\ pending' = Append(pending, sample)
    /\ cursor' = cursor + 1
    /\ UNCHANGED <<kind, run_file, qrels, config, dataset, docpairs, batch, modelVars, setupVars>>

\* the loader handing the fetched samples to collate_fn
Collate ==
    /\ pending # <<>>
    /\ batch' = Some([samples |-> pending, out |-> collate_fn(pending)])
    /\ pending' = <<>>
    /\ UNCHANGED <<kind, run_file, qrels, config, dataset, docpairs, cursor, item, modelVars, setupVars>>

Next == Construct \/ FetchItem \/ NextTriple \/ Collate

Spec == Init /\ [][Next]_vars

-----------------------------------------------------------------------------
(* MVRModel: scoring_mask, score, forward *)

MaxRows == 2          \* rows (texts) of an encoding
MaxSeqLen == 2        \* tokens per row of an encoding
MaxViewerTokens == 2  \* largest configured num_viewer_tokens
Tokens == {1, 2}
PoolingStrategies == {"first", "mean", "max", "sum"}

\* the sentinel a masked token pair contributes to the max-reduction
NegInf == -1000

\* a boolean tensor, and torch.ones(shape, dtype=torch.bool)
BoolTensor(rows, width) ==
    [type |-> "tensor", dtype |-> "bool", shape |-> <<Len(rows), width>>, data |-> rows]
torch_ones(n, width) == BoolTensor([i \in 1..n |-> [j \in 1..width |-> TRUE]], width)

\* a bound method object: the value of the expression super().scoring_mask
BoundMethod(name) == [type |-> "method", name |-> name]

\* BiEncoderModel.scoring_mask, the general token-validity mask: the attention
\* mask as booleans, all true under mask expansion
BiEncoder_scoring_mask(encoding, expansion) ==
    BoolTensor([i \in 1..Len(encoding.input_ids) |->
                  [j \in 1..Len(encoding.input_ids[i]) |->
                      expansion \/ encoding.attention_mask[i][j] = 1]],
               Len(encoding.input_ids[1]))

\* MVRModel.scoring_mask
scoring_mask(cfg, encoding, expansion, pooling_strategy) ==
    LET shape == <<Len(encoding.input_ids), Len(encoding.input_ids[1])>>
    IN  IF ~pooling_strategy.is_none
        THEN IF ~cfg.num_viewer_tokens.is_none
             THEN torch_ones(shape[1], cfg.num_viewer_tokens.value)
             ELSE torch_ones(shape[1], 1)
        ELSE BoundMethod("scoring_mask")

\* BiEncoderModel.encode_query / encode_doc: one embedding per token (here of
\* dimension 1) and the scoring mask of the encoding
encode_text(encoding) ==
    [embeddings |-> encoding.input_ids,
     scoring_mask |-> BiEncoder_scoring_mask(encoding, FALSE).data]

\* the num_docs argument: None, an integer, or a sequence of integers
NumDocsArg(k, n, seq) == [kind |-> k, n |-> n, seq |-> seq]

\* num_docs as one count per query, or a configuration error
ParseNumDocs(num_docs, nq, nd) ==
    IF num_docs.kind = "seq"
    THEN IF Len(num_docs.seq) = nq /\ SumSeq(num_docs.seq) = nd
         THEN Return(num_docs.seq) ELSE Raise("ValueError")
    ELSE IF num_docs.kind = "int"
    THEN IF num_docs.n * nq = nd
         THEN Return([i \in 1..nq |-> num_docs.n]) ELSE Raise("ValueError")
    ELSE IF nd % nq = 0
         THEN Return([i \in 1..nq |-> nd \div nq]) ELSE Raise("ValueError")

\* the query a document belongs to, given the per-query counts
RECURSIVE QueryOfDoc(_, _)
QueryOfDoc(counts, j) ==
    IF j <= Head(counts) THEN 1 ELSE 1 + QueryOfDoc(Tail(counts), j - Head(counts))

\* best match of one query token among the tokens of a document: the largest
\* dot product, a masked document token counting as NegInf
BestMatch(qtok, dvec, dmask) ==
    LET sims == {IF dmask[u] THEN qtok * dvec[u] ELSE NegInf : u \in 1..Len(dvec)}
    IN  CHOOSE x \in sims : \A y \in sims : y <= x

\* the scoring function: (document scores, token-level scores), or the error
scoring_function(query_embeddings, doc_embeddings, num_docs) ==
    LET nq == Len(query_embeddings.embeddings)
        nd == Len(doc_embeddings.embeddings)
        counts == ParseNumDocs(num_docs, nq, nd)
    IN  IF counts.raised THEN counts
        ELSE LET token_scores ==
                    [j \in 1..nd |->
                        LET q == QueryOfDoc(counts.value, j)
                        IN  [t \in 1..Len(query_embeddings.embeddings[q]) |->
                                IF query_embeddings.scoring_mask[q][t]
                                THEN BestMatch(query_embeddings.embeddings[q][t],
                                               doc_embeddings.embeddings[j],
                                               doc_embeddings.scoring_mask[j])
                                ELSE 0]]
             IN  Return(<<[j \in 1..nd |-> SumSeq(token_scores[j])], token_scores>>)

\* MVRModel.score: `scores, _ = self.scoring_function(...); return scores`
score(query_embeddings, doc_embeddings, num_docs) ==
    LET out == scoring_function(query_embeddings, doc_embeddings, num_docs)
    IN  IF out.raised THEN out ELSE Return(out.value[1])

\* the MVROutput dataclass
MVROutput(scores, query_embeddings, doc_embeddings, viewer_token_scores) ==
    [scores |-> scores, query_embeddings |-> query_embeddings,
     doc_embeddings |-> doc_embeddings, viewer_token_scores |-> viewer_token_scores]

\* MVRModel.forward; scores[0] and scores[1] index the value score returned,
\* and indexing None is a TypeError
forward(query_encoding, doc_encoding, num_docs) ==
    LET query_embeddings ==
            IF ~query_encoding.is_none THEN Some(encode_text(query_encoding.value)) ELSE NoneVal
        doc_embeddings ==
            IF ~doc_encoding.is_none THEN Some(encode_text(doc_encoding.value)) ELSE NoneVal
        both == ~doc_embeddings.is_none /\ ~query_embeddings.is_none
        scored == IF both
                  THEN score(query_embeddings.value, doc_embeddings.value, num_docs)
                  ELSE Raise("TypeError")
    IN  IF scored.raised THEN scored
        ELSE IF Len(scored.value) < 2 THEN Raise("IndexError")
        ELSE Return(MVROutput(scored.value[1], query_embeddings, doc_embeddings,
                              scored.value[2]))

\* encodings: B rows of L tokens, each row padded after its last real token
Encodings ==
    UNION {[input_ids : [1..B -> [1..L -> Tokens]],
            attention_mask : [1..B -> {[j \in 1..L |-> IF j <= n THEN 1 ELSE 0] : n \in 1..L}]] :
                B \in 1..MaxRows, L \in 1..MaxSeqLen}

NumDocsArgs ==
    {NumDocsArg("none", 0, <<>>)}
    \cup {NumDocsArg("int", n, <<>>) : n \in 1..MaxRows}
    \cup {NumDocsArg("seq", 0, s) : s \in SeqUpTo(1..MaxRows, MaxRows)}

Optional(S) == {NoneVal} \cup {Some(x) : x \in S}

\* the state of the data pipeline while only the model is exercised
DataIdle ==
    /\ kind = "run"
    /\ run_file = <<>>
    /\ qrels = {}
    /\ config = NoConfig
    /\ docpairs = [format |-> "plain", records |-> <<>>]
    /\ dataset = NoneVal
    /\ cursor = 0
    /\ item = NoneVal
    /\ pending = <<>>
    /\ batch = NoneVal

InitModel ==
    /\ DataIdle
    /\ SetupIdle
    /\ model_config \in [num_viewer_tokens : Optional(1..MaxViewerTokens)]
    /\ call = NoneVal

ScoringMaskCall ==
    /\ call.is_none
    /\ \E encoding \in Encodings, expansion \in BOOLEAN,
          pooling_strategy \in Optional(PoolingStrategies) :
        call' = Some([op |-> "scoring_mask", encoding |-> encoding,
                      pooling_strategy |-> pooling_strategy, expansion |-> expansion,
                      result |-> scoring_mask(model_config, encoding, expansion,
                                              pooling_strategy)])
    /\ UNCHANGED <<dataVars, model_config, setupVars>>

ScoreCall ==
    /\ call.is_none
    /\ \E query_encoding \in Encodings, doc_encoding \in Encodings, num_docs \in NumDocsArgs :
        call' = Some([op |-> "score",
                      query_embeddings |-> encode_text(query_encoding),
                      doc_embeddings |-> encode_text(doc_encoding),
                      num_docs |-> num_docs,
                      result |-> score(encode_text(query_encoding),
                                       encode_text(doc_encoding), num_docs)])
    /\ UNCHANGED <<dataVars, model_config, setupVars>>

ForwardCall ==
    /\ call.is_none
    /\ \E query_encoding \in Optional(Encodings), doc_encoding \in Optional(Encodings),
          num_docs \in NumDocsArgs :
        call' = Some([op |-> "forward", query_encoding |-> query_encoding,
                      doc_encoding |-> doc_encoding, num_docs |-> num_docs,
                      result |-> forward(query_encoding, doc_encoding, num_docs)])
    /\ UNCHANGED <<dataVars, model_config, setupVars>>

NextModel == ScoringMaskCall \/ ScoreCall \/ ForwardCall

SpecModel == InitModel /\ [][NextModel]_vars

-----------------------------------------------------------------------------
(* Sparse aggregation and its test *)

MaxK == 2        \* matched positions per row
MaxBucket == 2   \* largest document bucket index
AggRows == {1, 2}
TokenScoreValues == {3, 5}

\* one row of the scatter-reduce: the running minimum per bucket, NaN when
\* nothing was scattered into the bucket
RECURSIVE ScatterMin(_, _, _)
ScatterMin(acc, scores, idcs) ==
    IF scores = <<>> THEN acc
    ELSE LET b == Head(idcs)
             v == IF acc[b] = NaN THEN Head(scores) ELSE Min(acc[b], Head(scores))
         IN  ScatterMin([acc EXCEPT ![b] = v], Tail(scores), Tail(idcs))

\* max(doc_indices) + 1
NumBuckets(doc_idcs) == 1 + MaxSeq(Flatten(doc_idcs))

\* sparse_doc_aggregation(token_scores, doc_idcs): an (N, M) matrix whose
\* columns are the buckets 0..M-1
sparse_doc_aggregation(token_scores, doc_idcs) ==
    LET m == NumBuckets(doc_idcs)
    IN  [shape |-> <<Len(token_scores), m>>,
         data |-> [i \in 1..Len(token_scores) |->
                     ScatterMin([b \in 0..(m - 1) |-> NaN], token_scores[i], doc_idcs[i])]]

\* max(v): the largest instead of the smallest score of a bucket
RECURSIVE PyMax(_)
PyMax(v) == IF Len(v) = 1 THEN v[1] ELSE Max(v[1], PyMax(Tail(v)))

\* min(v) of a non-empty list
RECURSIVE PyMin(_)
PyMin(v) == IF Len(v) = 1 THEN v[1] ELSE Min(v[1], PyMin(Tail(v)))

\* doc_scores[doc_idcs[i, j]].append(token_scores[i, j]) for j in range(k):
\* the list collected for bucket b of one row
BucketList(scores, idcs, b) ==
    LET js == SelectSeq([j \in 1..Len(idcs) |-> j], LAMBDA j : idcs[j] = b)
    IN  [n \in 1..Len(js) |-> scores[js[n]]]

\* the test's manual_doc_scores: per row, a dict from every bucket that occurs
\* in the row to the minimum of its list
manual_doc_scores(token_scores, doc_idcs) ==
    [i \in 1..Len(token_scores) |->
        [b \in {doc_idcs[i][j] : j \in 1..Len(doc_idcs[i])} |->
            PyMin(BucketList(token_scores[i], doc_idcs[i], b))]]

InitAgg ==
    /\ DataIdle
    /\ SetupIdle
    /\ model_config = [num_viewer_tokens |-> NoneVal]
    /\ call = NoneVal

\* the body of test_sparse_doc_aggregation up to its assertions
AggregateCall ==
    /\ call.is_none
    /\ \E n \in AggRows, k \in 1..MaxK :
        \E token_scores \in [1..n -> [1..k -> TokenScoreValues]],
           doc_idcs \in [1..n -> [1..k -> 0..MaxBucket]] :
            call' = Some([op |-> "sparse_doc_aggregation",
                          token_scores |-> token_scores, doc_idcs |-> doc_idcs,
                          manual_doc_scores |-> manual_doc_scores(token_scores, doc_idcs),
                          doc_scores |-> sparse_doc_aggregation(token_scores, doc_idcs)])
    /\ UNCHANGED <<dataVars, model_config, setupVars>>

NextAgg == AggregateCall

SpecAgg == InitAgg /\ [][NextAgg]_vars

-----------------------------------------------------------------------------
(* MVRDataModule: setup and train_dataloader *)

MaxInference == 2   \* inference datasets configured at most

Stages == {"fit", "validate", "test", "predict"}

\* dataset names as pathlib sees them: Path(name).suffix
TrainDatasetNames == {[stem |-> "train", suffix |-> ".run"], [stem |-> "triples", suffix |-> ""]}
InferenceDatasetNames == {[stem |-> "dev", suffix |-> ".run"], [stem |-> "test", suffix |-> ".run"]}

\* the run configurations told apart by setup: one per sampling strategy
SetupRunConfigs ==
    {cfg \in RunDatasetConfigs :
        cfg.targets = "relevance" /\ cfg.depth = -1 /\ cfg.sample_size = 1}

\* raise ValueError(message)
ValueError(message) == [raised |-> TRUE, error |-> "ValueError", message |-> message]

\* self.<name> = v
SetAttr(at, name, v) ==
    [x \in DOMAIN at \cup {name} |-> IF x = name THEN v ELSE at[x]]

\* the objects setup constructs
RunDatasetObj(path, cfg) == [class |-> "RunDataset", run_dataset |-> path, config |-> cfg]
TriplesDatasetObj(name) == [class |-> "TriplesDataset", triples_dataset |-> name]
DataLoaderObj(ds, at) ==
    [class |-> "DataLoader", dataset |-> ds, batch_size |-> at["batch_size"],
     num_workers |-> at["num_workers"], collate_fn |-> "collate_fn"]

\* setup that lets the single_relevant strategy through for inference
setupAnyStrategy(dm, at, stage) ==
    LET fit == stage = "fit"
    IN  IF fit /\ dm.train_dataset.is_none
        THEN [attrs |-> at, result |-> ValueError("A training dataset must be provided.")]
        ELSE IF fit /\ dm.train_dataset.value.suffix = ".run" /\ dm.train_run_config.is_none
        THEN [attrs |-> at,
              result |-> ValueError("A train RunDatasetConfig must be provided when using a run file for training.")]
        ELSE
        LET built == IF dm.train_dataset.value.suffix = ".run"
                     THEN RunDatasetObj(dm.train_dataset.value, dm.train_run_config.value)
                     ELSE TriplesDatasetObj(dm.train_dataset.value)
            a1 == IF fit THEN SetAttr(at, "_train_dataset", Some(built)) ELSE at
            a2 == SetAttr(a1, "_inference_datasets", <<>>)
        IN  IF dm.inference_datasets.is_none
            THEN [attrs |-> a2, result |-> Return(NoneVal)]
            ELSE IF dm.inference_run_config.is_none
            THEN [attrs |-> a2,
                  result |-> ValueError("An inference RunDatasetConfig must be provided when providing a inference datasets.")]
            ELSE [attrs |-> SetAttr(a2, "_inference_datasets",
                                    [i \in 1..Len(dm.inference_datasets.value) |->
                                        RunDatasetObj(dm.inference_datasets.value[i],
                                                      dm.inference_run_config.value)]),
                  result |-> Return(NoneVal)]

\* MVRDataModule.setup(stage): the attributes afterwards and the outcome
setup(dm, at, stage) ==
    LET fit == stage = "fit"
    IN  IF fit /\ dm.train_dataset.is_none
        THEN [attrs |-> at, result |-> ValueError("A training dataset must be provided.")]
        ELSE IF fit /\ dm.train_dataset.value.suffix = ".run" /\ dm.train_run_config.is_none
        THEN [attrs |-> at,
              result |-> ValueError("A train RunDatasetConfig must be provided when using a run file for training.")]
        ELSE
        LET built == IF dm.train_dataset.value.suffix = ".run"
                     THEN RunDatasetObj(dm.train_dataset.value, dm.train_run_config.value)
                     ELSE TriplesDatasetObj(dm.train_dataset.value)
            a1 == IF fit THEN SetAttr(at, "_train_dataset", Some(built)) ELSE at
            a2 == SetAttr(a1, "_inference_datasets", <<>>)
        IN  IF dm.inference_datasets.is_none
            THEN [attrs |-> a2, result |-> Return(NoneVal)]
            ELSE IF dm.inference_run_config.is_none
            THEN [attrs |-> a2,
                  result |-> ValueError("An inference RunDatasetConfig must be provided when providing a inference datasets.")]
            ELSE IF dm.inference_run_config.value.sampling_strategy = "single_relevant"
            THEN [attrs |-> a2,
                  result |-> ValueError("Inference RunDatasetConfig cannot use the single_relevant sampling strategy.")]
            ELSE [attrs |-> SetAttr(a2, "_inference_datasets",
                                    [i \in 1..Len(dm.inference_datasets.value) |->
                                        RunDatasetObj(dm.inference_datasets.value[i],
                                                      dm.inference_run_config.value)]),
                  result |-> Return(NoneVal)]

\* MVRDataModule.train_dataloader(); reading an attribute that was never
\* assigned is an AttributeError
train_dataloader(at) ==
    IF ~hasattr(at, "_train_dataset") THEN Raise("AttributeError")
    ELSE IF at["_train_dataset"].is_none THEN ValueError("No training dataset found.")
    ELSE Return(DataLoaderObj(at["_train_dataset"].value, at))

\* a freshly constructed MVRDataModule
InitSetup ==
    /\ DataIdle
    /\ model_config = [num_viewer_tokens |-> NoneVal]
    /\ call = NoneVal
    /\ datamodule \in [train_dataset : Optional(TrainDatasetNames),
                       inference_datasets : Optional(SeqUpTo(InferenceDatasetNames, MaxInference)),
                       train_run_config : Optional(SetupRunConfigs),
                       inference_run_config : Optional(SetupRunConfigs)]
    /\ attrs = InitAttrs

SetupCall ==
    /\ \E stage \in Stages :
        LET out == setup(datamodule, attrs, stage)
        IN  /\ attrs' = out.attrs
            /\ call' = Some([op |-> "setup", stage |-> stage, result |-> out.result])
    /\ UNCHANGED <<dataVars, model_config, datamodule>>

TrainDataloaderCall ==
    /\ call' = Some([op |-> "train_dataloader", result |-> train_dataloader(attrs)])
    /\ UNCHANGED <<dataVars, model_config, datamodule, attrs>>

NextSetup == SetupCall \/ TrainDataloaderCall

SpecSetup == InitSetup /\ [][NextSetup]_vars

-----------------------------------------------------------------------------
(* Properties of the data pipeline *)

HasBatch == ~batch.is_none
BatchOut == batch.value.out
BatchIn == batch.value.samples

Returned == ~item.is_none /\ ~item.value.raised
ItemSample == item.value.value.value

\* the group of the query the last item access was for
ItemGroup == get_group(dataset.value, dataset.value.query_ids[item.value.idx + 1])

\* a Sample with as many docs and targets as doc_ids
WellFormed(s) == Len(s.docs) = Len(s.doc_ids) /\ Len(s.targets) = Len(s.doc_ids)

DocCounts(doc_ids) == [i \in 1..Len(doc_ids) |-> Len(doc_ids[i])]

\* flat cut into consecutive pieces of the given lengths
RECURSIVE SplitBy(_, _)
SplitBy(flat, counts) ==
    IF counts = <<>> THEN <<>>
    ELSE <<SubSeq(flat, 1, Min(Head(counts), Len(flat)))>>
         \o SplitBy(SubSeq(flat, Min(Head(counts), Len(flat)) + 1, Len(flat)), Tail(counts))

\* how often x occurs in s
Occurrences(s, x) == Cardinality({i \in 1..Len(s) : s[i] = x})

\* C1: for samples that each have as many docs and targets as doc_ids, the
\* Batch has sum(len(doc_ids) per query) = rows of doc_encoding = len(targets)
C1_BatchCounts ==
    (HasBatch /\ \A i \in 1..Len(BatchIn) : WellFormed(BatchIn[i]))
    => /\ SumSeq(DocCounts(BatchOut.doc_ids)) = Len(BatchOut.doc_encoding.rows)
       /\ SumSeq(DocCounts(BatchOut.doc_ids)) = BatchOut.targets.shape[1]
       /\ BatchOut.targets.shape[1] = Len(BatchOut.targets.data)

C1_Witness ==
    /\ HasBatch
    /\ \A i \in 1..Len(BatchIn) : WellFormed(BatchIn[i])
    /\ Len(BatchIn) = 2
    /\ Len(BatchIn[1].doc_ids) # Len(BatchIn[2].doc_ids)
    /\ Len(BatchOut.doc_encoding.rows) >= 3

\* C2: splitting the Batch's flattened targets by the per-query document
\* counts recovers every sample's targets, and doc_ids and query_ids are the
\* samples' own, in sample order
C2_RoundTrip ==
    HasBatch
    => /\ SplitBy(BatchOut.targets.data, DocCounts(BatchOut.doc_ids))
            = [i \in 1..Len(BatchIn) |-> BatchIn[i].targets]
       /\ BatchOut.doc_ids = [i \in 1..Len(BatchIn) |-> BatchIn[i].doc_ids]
       /\ BatchOut.query_ids = [i \in 1..Len(BatchIn) |-> BatchIn[i].query_id]

\* C3: under "top" the sample holds the first min(s, n) rows of the group in
\* rank order, and doc_ids, targets and relevance have that one length, with
\* relevance[k] the grade of doc_ids[k] (0 when not judged)
C3_TopSample ==
    (kind = "run" /\ Returned /\ config.sampling_strategy = "top")
    => LET n == Min(config.sample_size, Len(ItemGroup))
       IN  /\ ItemSample.doc_ids = [k \in 1..n |-> ItemGroup[k].doc_id]
           /\ \A k \in 1..(n - 1) : ~RowBefore(ItemGroup[k + 1], ItemGroup[k])
           /\ Len(ItemSample.docs) = n
           /\ Len(ItemSample.targets) = n
           /\ ~ItemSample.relevance.is_none
           /\ ItemSample.relevance.value = [k \in 1..n |-> fillna0(ItemGroup[k].relevance)]

C5_NoRelevantRaises ==
    (kind = "run" /\ ~item.is_none /\ config.sampling_strategy = "single_relevant"
        /\ ~\E i \in 1..Len(ItemGroup) : ItemGroup[i].relevance > 0)
    => /\ item.value.raised
       /\ item.value.value.is_none
       /\ item.value.idx = cursor

C5_Witness ==
    /\ kind = "run" /\ ~item.is_none /\ config.sampling_strategy = "single_relevant"
    /\ config.sample_size >= 2
    /\ ~\E i \in 1..Len(ItemGroup) : ItemGroup[i].relevance > 0
    /\ \E i \in 1..Len(ItemGroup) : ItemGroup[i].relevance = 0 /\ ItemGroup[i].rank # NaN
    /\ item.value.raised

\* the Sample the k-th record of the supervision stream stands for
ExpectedTriple(k) ==
    LET r == docpairs.records[k]
    IN  IF docpairs.format = "kd"
        THEN Sample(r[3], query_text(r[3]), <<r[4], r[5]>>,
                    <<default_text(r[4]), default_text(r[5])>>, <<r[1], r[2]>>, NoneVal)
        ELSE Sample(r.query_id, query_text(r.query_id), <<r.doc_id_a, r.doc_id_b>>,
                    <<default_text(r.doc_id_a), default_text(r.doc_id_b)>>, <<1, 0>>, NoneVal)

\* C9: iteration yields one Sample per record, in stream order, with doc_ids
\* (doc_id_a, doc_id_b), no relevance, and targets the record's scores, or
\* (1, 0) when it carries none
C9_TriplesSamples ==
    kind = "triples"
    => /\ cursor <= Len(docpairs.records)
       /\ Len(pending) <= cursor
       /\ pending = [j \in 1..Len(pending) |-> ExpectedTriple(cursor - Len(pending) + j)]
       /\ (cursor = 0) = item.is_none
       /\ cursor > 0 => /\ Returned
                        /\ item.value.idx = cursor - 1
                        /\ ItemSample = ExpectedTriple(cursor)
                        /\ ItemSample.relevance.is_none
                        /\ Len(ItemSample.doc_ids) = 2

C9_Witness ==
    /\ kind = "triples"
    /\ docpairs.format = "kd"
    /\ cursor = 2
    /\ Len(pending) = 2
    /\ pending[1].targets = <<8, 2>>
    /\ pending[2].targets = <<2, 8>>
    /\ pending[1].doc_ids # pending[2].doc_ids

\* C10: the Batch's relevance is absent exactly when no sample carries one;
\* otherwise it holds the samples' relevance tuples left-aligned, padded with
\* 0 to the largest document count of any sample in the batch
C10_BatchRelevance ==
    HasBatch
    => LET with == SelectSeq(BatchIn, LAMBDA x : ~x.relevance.is_none)
           width == MaxSeq(DocCounts(BatchOut.doc_ids))
       IN  /\ BatchOut.relevance.is_none = (with = <<>>)
           /\ with # <<>> =>
                /\ BatchOut.relevance.value.shape = <<Len(with), width>>
                /\ Len(BatchOut.relevance.value.data) = Len(with)
                /\ \A r \in 1..Len(with) :
                     LET row == BatchOut.relevance.value.data[r]
                         rel == with[r].relevance.value
                     IN  /\ Len(row) = width
                         /\ Len(rel) <= width
                         /\ \A j \in 1..Len(row) :
                              row[j] = IF j <= Len(rel) THEN rel[j] ELSE 0

-----------------------------------------------------------------------------
(* Properties of the model and of the aggregation routine *)

Called(op) == ~call.is_none /\ call.value.op = op

C7_ScorePair ==
    /\ Called("score") =>
        LET sf == scoring_function(call.value.query_embeddings,
                                   call.value.doc_embeddings, call.value.num_docs)
        IN  ~sf.raised =>
                /\ ~call.value.result.raised
                /\ call.value.result.value = sf.value
                /\ Len(sf.value[1]) = Len(call.value.doc_embeddings.embeddings)
    /\ (Called("forward") /\ ~call.value.query_encoding.is_none
            /\ ~call.value.doc_encoding.is_none) =>
        LET sf == scoring_function(encode_text(call.value.query_encoding.value),
                                   encode_text(call.value.doc_encoding.value),
                                   call.value.num_docs)
        IN  ~sf.raised =>
                /\ ~call.value.result.raised
                /\ call.value.result.value.scores = sf.value[1]
                /\ call.value.result.value.viewer_token_scores = sf.value[2]

\* C8: scoring_mask returns a boolean mask with B rows: all true with
\* num_viewer_tokens columns (1 when not configured) under a pooling
\* strategy, the general token-validity mask of shape (B, L) otherwise
C8_ScoringMask ==
    Called("scoring_mask")
    => LET enc == call.value.encoding
           b == Len(enc.input_ids)
           l == Len(enc.input_ids[1])
           out == call.value.result
           width == IF model_config.num_viewer_tokens.is_none THEN 1
                    ELSE model_config.num_viewer_tokens.value
       IN  /\ out.type = "tensor"
           /\ out.dtype = "bool"
           /\ IF ~call.value.pooling_strategy.is_none
              THEN /\ out.shape = <<b, width>>
                   /\ \A i \in 1..b : \A j \in 1..width : out.data[i][j]
              ELSE /\ out.shape = <<b, l>>
                   /\ out = BiEncoder_scoring_mask(enc, call.value.expansion)

-----------------------------------------------------------------------------
(* Further properties of RunDataset *)

\* C12: every Sample of RunDataset has one target per document,
\* len(targets) = len(doc_ids) = len(docs), and targets[k] is the configured
\* field of doc_ids[k] in the query's group, 0 when missing; also for a run
\* file that lists a doc_id more than once for a query
C12_TargetPerDoc ==
    (kind = "run" /\ Returned)
    => /\ Len(ItemSample.targets) = Len(ItemSample.doc_ids)
       /\ Len(ItemSample.docs) = Len(ItemSample.doc_ids)
       /\ \A k \in 1..Len(ItemSample.doc_ids) :
            \E i \in 1..Len(ItemGroup) :
                /\ ItemGroup[i].doc_id = ItemSample.doc_ids[k]
                /\ ItemSample.targets[k] = fillna0(Column(ItemGroup[i], config.targets))

\* the run file ranks doc_id for query_id, and only deeper than depth
RankedDeeper(query_id, doc_id, depth) ==
    /\ \E i \in 1..Len(run_file) :
        /\ run_file[i].query_id = query_id
        /\ run_file[i].doc_id = doc_id
        /\ run_file[i].rank > depth
    /\ ~\E i \in 1..Len(run_file) :
        /\ run_file[i].query_id = query_id
        /\ run_file[i].doc_id = doc_id
        /\ run_file[i].rank <= depth

\* C13: with depth d # -1 the rows ranked deeper than d are dropped, and no
\* Sample holds a document the run file ranks deeper than d for its query,
\* judged or not; with depth -1 no run row is dropped
C13_DepthCut ==
    (kind = "run" /\ ~dataset.is_none)
    => /\ config.depth = -1 =>
            \A i \in 1..Len(run_file) : \E j \in 1..Len(dataset.value.run) :
                /\ dataset.value.run[j].query_id = run_file[i].query_id
                /\ dataset.value.run[j].doc_id = run_file[i].doc_id
                /\ dataset.value.run[j].rank = run_file[i].rank
       /\ config.depth # -1 =>
            \A j \in 1..Len(dataset.value.run) : dataset.value.run[j].rank <= config.depth
       /\ (config.depth # -1 /\ Returned) =>
            \A k \in 1..Len(ItemSample.doc_ids) :
                ~RankedDeeper(ItemSample.query_id, ItemSample.doc_ids[k], config.depth)

\* C13, amended: with depth d # -1 no row of the dataset has a rank above d,
\* and a document the run file ranks deeper than d is in a Sample only when
\* it has a relevance judgment for the query, which brings it back through
\* the outer join as a row without rank; with depth -1 no run row is dropped
C13_DepthCutJudged ==
    (kind = "run" /\ ~dataset.is_none)
    => /\ config.depth = -1 =>
            \A i \in 1..Len(run_file) : \E j \in 1..Len(dataset.value.run) :
                /\ dataset.value.run[j].query_id = run_file[i].query_id
                /\ dataset.value.run[j].doc_id = run_file[i].doc_id
                /\ dataset.value.run[j].rank = run_file[i].rank
       /\ config.depth # -1 =>
            \A j \in 1..Len(dataset.value.run) : dataset.value.run[j].rank <= config.depth
       /\ (config.depth # -1 /\ Returned) =>
            \A k \in 1..Len(ItemSample.doc_ids) :
                RankedDeeper(ItemSample.query_id, ItemSample.doc_ids[k], config.depth)
                => /\ \E r \in qrels : /\ r.query_id = ItemSample.query_id
                                       /\ r.doc_id = ItemSample.doc_ids[k]
                   /\ \A i \in 1..Len(ItemGroup) :
                        ItemGroup[i].doc_id = ItemSample.doc_ids[k]
                        => ItemGroup[i].rank = NaN /\ ItemGroup[i].relevance # NaN

C13_Witness ==
    /\ kind = "run" /\ Returned
    /\ config.depth = 1
    /\ \E k \in 1..Len(ItemSample.doc_ids) :
        RankedDeeper(ItemSample.query_id, ItemSample.doc_ids[k], config.depth)
    /\ \E i \in 1..Len(run_file) :
        /\ run_file[i].query_id = ItemSample.query_id
        /\ run_file[i].rank > config.depth
        /\ \A j \in 1..Len(dataset.value.run) :
            dataset.value.run[j].query_id = run_file[i].query_id
            => dataset.value.run[j].rank # run_file[i].rank

-----------------------------------------------------------------------------
(* Further properties of the model *)

\* C15: forward with query_encoding or doc_encoding absent returns an
\* MVROutput without raising: scores and viewer_token_scores are absent and
\* query_embeddings / doc_embeddings are the embeddings of the encodings given
C15_ForwardAbsent ==
    (Called("forward")
        /\ (call.value.query_encoding.is_none \/ call.value.doc_encoding.is_none))
    => LET out == call.value.result
           q == call.value.query_encoding
           d == call.value.doc_encoding
       IN  /\ ~out.raised
           /\ out.value.scores = NoneVal
           /\ out.value.viewer_token_scores = NoneVal
           /\ out.value.query_embeddings
                = IF q.is_none THEN NoneVal ELSE Some(encode_text(q.value))
           /\ out.value.doc_embeddings
                = IF d.is_none THEN NoneVal ELSE Some(encode_text(d.value))

-----------------------------------------------------------------------------
(* Properties of MVRDataModule.setup and train_dataloader *)

\* C11: setup(stage) raises a configuration error when stage is "fit" and no
\* training dataset is configured, when stage is "fit", the training dataset
\* is a .run file and no train RunDatasetConfig is given, when inference
\* datasets are configured and no inference RunDatasetConfig is given, and
\* when inference datasets are configured and the inference config uses
\* "single_relevant"; in the last two cases no inference dataset is built
C11_SetupErrors ==
    Called("setup")
    => LET dm == datamodule
           fit == call.value.stage = "fit"
           out == call.value.result
           noTrain == fit /\ dm.train_dataset.is_none
           noTrainConfig == /\ fit
                            /\ ~dm.train_dataset.is_none
                            /\ dm.train_dataset.value.suffix = ".run"
                            /\ dm.train_run_config.is_none
           noInferenceConfig == ~dm.inference_datasets.is_none /\ dm.inference_run_config.is_none
           badStrategy == /\ ~dm.inference_datasets.is_none
                          /\ ~dm.inference_run_config.is_none
                          /\ dm.inference_run_config.value.sampling_strategy = "single_relevant"
       IN  /\ (noTrain \/ noTrainConfig \/ noInferenceConfig \/ badStrategy)
                => out.raised /\ out.error = "ValueError"
           /\ (noInferenceConfig \/ badStrategy)
                => \/ ~hasattr(attrs, "_inference_datasets")
                   \/ attrs["_inference_datasets"] = <<>>

C11_Witness ==
    /\ Called("setup")
    /\ call.value.stage = "fit"
    /\ ~datamodule.train_dataset.is_none
    /\ ~datamodule.inference_datasets.is_none
    /\ Len(datamodule.inference_datasets.value) = 2
    /\ ~datamodule.inference_run_config.is_none
    /\ datamodule.inference_run_config.value.sampling_strategy = "single_relevant"
    /\ call.value.result.raised
    /\ hasattr(attrs, "_train_dataset")
    /\ attrs["_inference_datasets"] = <<>>

\* C14: train_dataloader() returns a DataLoader only after a setup("fit")
\* that built the training dataset; in every other state it raises the
\* ValueError "No training dataset found."
C14_TrainDataloader ==
    Called("train_dataloader")
    => LET out == call.value.result
       IN  IF hasattr(attrs, "_train_dataset")
           THEN ~out.raised /\ out.value.class = "DataLoader"
           ELSE /\ out.raised
                /\ out.error = "ValueError"
                /\ out.message = "No training dataset found."

====
